---- MODULE Spec2Model ----
(***************************************************************************)
(* Model of yts.py: a command-line tool that fetches a video's metadata,   *)
(* downloads its English captions into a temporary directory, cleans the   *)
(* caption markup into plain text (clean_vtt) and hands the text to an     *)
(* external summarizer process.                                            *)
(*                                                                         *)
(* Text is modelled as a sequence of one-character strings, so that        *)
(* splitting, trimming, tag stripping and joining are computed on the      *)
(* characters as the code computes them.                                   *)
(*                                                                         *)
(* Two specifications:                                                     *)
(*   SpecClean  clean_vtt as a pure function, applied (and re-applied) to  *)
(*              a bounded family of subtitle documents;                    *)
(*   Spec       one run of main(), split at its external calls.            *)
(***************************************************************************)
EXTENDS Integers, Sequences, FiniteSets, TLC

VARIABLES
    \* ---- SpecClean: clean_vtt under test
    cpc,        \* "input" | "cleaned" | "recleaned"
    doc,        \* the subtitle document handed to clean_vtt
    kept,       \* the list `cleaned` built by clean_vtt(doc)
    out,        \* clean_vtt(doc)
    out2,       \* clean_vtt(clean_vtt(doc))
    \* ---- Spec: one run of main()
    pc,         \* position of the run
    model,      \* args.model
    title,      \* title taken from the metadata
    tmpdir,     \* TRUE while the TemporaryDirectory exists
    tmpfiles,   \* the files yt-dlp wrote into the temporary directory
    transcript, \* what extract_subtitles returned (kept for reference)
    subtitles,  \* main's variable `subtitles`
                \* (both held as slices of a cleaned caption text, see chars)
    info,       \* what ydl.extract_info returned or raised
    dl,         \* how ydl.download ended: "none" | "ok" | "error"
    argv,       \* the summarizer process as invoked (invoked = FALSE before)
    result,     \* the CompletedProcess of the summarizer
    summary,    \* main's variable `summary`
    stderr,     \* lines printed to standard error, in order
    stdout,     \* lines printed to standard output, in order
    exit_code,  \* <<>> while running, then <<status>> of the process
    stages      \* the stages started so far, in order

cleanVars == <<cpc, doc, kept, out, out2>>
mainVars  == <<pc, model, title, tmpdir, tmpfiles, transcript, subtitles,
               info, dl, argv, result, summary, stderr, stdout, exit_code,
               stages>>
vars      == <<cpc, doc, kept, out, out2, pc, model, title, tmpdir, tmpfiles,
               transcript, subtitles, info, dl, argv, result, summary, stderr,
               stdout, exit_code, stages>>

NoValue == "<none>"

NoInfo     == [status |-> "none", has_title |-> FALSE, title |-> NoValue,
               error |-> NoValue]
\* a text of main() is held as a slice [content, from, to] of the cleaned text
\* of a caption file; chars (below) gives its characters
NoText     == [content |-> NoValue, from |-> 1, to |-> 0]
NotInvoked == [invoked |-> FALSE, title |-> NoValue, subtitles |-> NoText,
               model |-> NoValue]
NoResult   == [status |-> "none", returncode |-> 0, stdout |-> <<>>,
               stderr |-> NoValue]

(***************************************************************************)
(* Python string primitives used by the program                            *)
(***************************************************************************)

\* characters str.strip() removes
Whitespace == {" ", "\t", "\n", "\r"}

\* characters str.isdigit() accepts
Digits == {"0", "1", "2", "3", "4", "5", "6", "7", "8", "9"}

\* positions at which str.splitlines() ends a line: "\n", "\r", and "\r\n"
\* counted once (at its "\n")
LineEnds(s) ==
    {i \in 1..Len(s) :
        \/ s[i] = "\n"
        \/ s[i] = "\r" /\ ~(i < Len(s) /\ s[i + 1] = "\n")}

\* str.splitlines(): the lines without their line breaks; a final line break
\* opens no further (empty) line
splitlines(s) ==
    LET n      == Len(s)
        E      == LineEnds(s)
        m      == Cardinality(E)
        Kth(k) == CHOOSE e \in E : Cardinality({x \in E : x <= e}) = k
        EndAt(k)   == IF k = 0 THEN 0 ELSE Kth(k)
        last   == EndAt(m)
        total  == m + (IF last < n THEN 1 ELSE 0)
        Stop(e)    == IF s[e] = "\n" /\ e > 1 /\ s[e - 1] = "\r"
                      THEN e - 2 ELSE e - 1
    IN  [k \in 1..total |->
            IF k <= m
            THEN SubSeq(s, EndAt(k - 1) + 1, Stop(Kth(k)))
            ELSE SubSeq(s, last + 1, n)]

\* str.strip(): drop leading and trailing whitespace
strip(s) ==
    LET n == Len(s)
    IN  IF \A i \in 1..n : s[i] \in Whitespace
        THEN <<>>
        ELSE LET lo == CHOOSE i \in 1..n :
                          /\ s[i] \notin Whitespace
                          /\ \A j \in 1..(i - 1) : s[j] \in Whitespace
                 back == CHOOSE k \in 0..(n - 1) :
                          /\ s[n - k] \notin Whitespace
                          /\ \A j \in (n - k + 1)..n : s[j] \in Whitespace
             IN  SubSeq(s, lo, n - back)

\* str.startswith(prefix)
startswith(s, prefix) ==
    /\ Len(s) >= Len(prefix)
    /\ SubSeq(s, 1, Len(prefix)) = prefix

\* `sub in s`
contains(s, sub) ==
    \E i \in 1..(Len(s) - Len(sub) + 1) : SubSeq(s, i, i + Len(sub) - 1) = sub

\* str.isdigit(): non-empty and all digits
isdigit(s) ==
    /\ s # <<>>
    /\ \A i \in 1..Len(s) : s[i] \in Digits

\* a match of the pattern <[^>]+> can start at position a: a "<", then at
\* least one character that is not ">", then a ">" somewhere after
TagStartsAt(s, a) ==
    /\ s[a] = "<"
    /\ a + 1 <= Len(s)
    /\ s[a + 1] # ">"
    /\ \E b \in (a + 2)..Len(s) : s[b] = ">"

\* the match starting at a ends at the first ">" after it
TagEnd(s, a) ==
    CHOOSE b \in (a + 2)..Len(s) :
        /\ s[b] = ">"
        /\ \A c \in (a + 2)..(b - 1) : s[c] # ">"

FirstOf(S) == CHOOSE x \in S : \A y \in S : x <= y

RECURSIVE re_sub_from(_, _)
\* re.sub scanning from position `from`: copy up to the leftmost match,
\* drop the match, go on after it
re_sub_from(s, from) ==
    LET starts == {a \in from..Len(s) : TagStartsAt(s, a)}
    IN  IF starts = {}
        THEN SubSeq(s, from, Len(s))
        ELSE LET a == FirstOf(starts)
             IN  SubSeq(s, from, a - 1) \o re_sub_from(s, TagEnd(s, a) + 1)

\* variant of re_sub: only the first match is removed (count=1)
re_sub_first(s) ==
    LET starts == {a \in 1..Len(s) : TagStartsAt(s, a)}
    IN  IF starts = {}
        THEN s
        ELSE LET a == FirstOf(starts)
             IN  SubSeq(s, 1, a - 1) \o SubSeq(s, TagEnd(s, a) + 1, Len(s))

\* re.sub(r"<[^>]+>", "", line)
re_sub(s) == re_sub_from(s, 1)

RECURSIVE join_from(_, _, _)
join_from(sep, parts, i) ==
    IF i > Len(parts) THEN <<>>
    ELSE IF i = Len(parts) THEN parts[i]
    ELSE parts[i] \o sep \o join_from(sep, parts, i + 1)

\* sep.join(parts)
join(sep, parts) == join_from(sep, parts, 1)

(***************************************************************************)
(* clean_vtt                                                               *)
(***************************************************************************)

WEBVTT   == <<"W", "E", "B", "V", "T", "T">>
KindTok  == <<"K", "i", "n", "d", ":">>
LangTok  == <<"L", "a", "n", "g", "u", "a", "g", "e", ":">>
NoteTok  == <<"N", "O", "T", "E">>
Arrow    == <<"-", "-", ">">>
Space    == <<" ">>

\* variant of SkipLine: the test for "-->" is missing
SkipLine_NoArrow(line) ==
    \/ line = <<>>
    \/ startswith(line, WEBVTT)
    \/ startswith(line, KindTok)
    \/ startswith(line, LangTok)
    \/ startswith(line, NoteTok)
    \/ (isdigit(SubSeq(line, 1, 1)) /\ isdigit(strip(line)))

\* the condition of the `continue` in clean_vtt, on the trimmed line
SkipLine(line) ==
    \/ line = <<>>
    \/ startswith(line, WEBVTT)
    \/ startswith(line, KindTok)
    \/ startswith(line, LangTok)
    \/ contains(line, Arrow)
    \/ startswith(line, NoteTok)
    \/ (isdigit(SubSeq(line, 1, 1)) /\ isdigit(strip(line)))

\* the tag-stripped, re-trimmed line
StripTags(line) == strip(re_sub(line))

\* variant of JoinSep: the kept lines are joined without a separator
JoinSep_Empty == <<>>

\* the separator clean_vtt joins the kept lines with
JoinSep == Space

RECURSIVE clean_loop_adjacent(_, _, _, _)
\* variant of clean_loop: a line is dropped only when it repeats the line kept
\* last
clean_loop_adjacent(lines, i, seen, cleaned) ==
    IF i > Len(lines) THEN cleaned
    ELSE LET line == strip(lines[i])
         IN  IF SkipLine(line)
             THEN clean_loop_adjacent(lines, i + 1, seen, cleaned)
             ELSE LET stripped == StripTags(line)
                  IN  IF stripped # <<>> /\ stripped \notin seen
                      THEN clean_loop_adjacent(lines, i + 1, {stripped},
                                               Append(cleaned, stripped))
                      ELSE clean_loop_adjacent(lines, i + 1, seen, cleaned)

RECURSIVE clean_loop(_, _, _, _)
\* the for loop of clean_vtt from line i on, with the set `seen` and the
\* list `cleaned` built so far
clean_loop(lines, i, seen, cleaned) ==
    IF i > Len(lines) THEN cleaned
    ELSE LET line == strip(lines[i])
         IN  IF SkipLine(line)
             THEN clean_loop(lines, i + 1, seen, cleaned)
             ELSE LET stripped == StripTags(line)
                  IN  IF stripped # <<>> /\ stripped \notin seen
                      THEN clean_loop(lines, i + 1, seen \cup {stripped},
                                      Append(cleaned, stripped))
                      ELSE clean_loop(lines, i + 1, seen, cleaned)

\* the list `cleaned` at the end of clean_vtt
clean_lines(vtt_text) == clean_loop(splitlines(vtt_text), 1, {}, <<>>)

clean_vtt(vtt_text) == join(JoinSep, clean_lines(vtt_text))

(***************************************************************************)
(* SpecClean: clean_vtt applied to a bounded family of documents           *)
(***************************************************************************)

\* most lines of a document
MaxLines == 3

\* the lines documents are made of: headers, a timestamp line, a cue number,
\* cue text with surrounding whitespace and a carriage return, repeated text,
\* tagged text, and text with stray angle brackets and dashes
LinePool ==
    { WEBVTT,
      <<"K", "i", "n", "d", ":", " ", "c">>,
      <<"L", "a", "n", "g", "u", "a", "g", "e", ":", "e">>,
      <<"N", "O", "T", "E", " ", "x">>,
      <<"1", " ", "-", "-", ">", " ", "2">>,
      <<"1", "2">>,
      <<" ", "a", "\r">>,
      <<"a">>,
      <<"b", " ", "<", "c", ">", "d", "<", "/", "c", ">">>,
      <<"<", "c", ">", "1", "2", "<", "/", "c", ">">>,
      <<"-", "-", "<", "c", ">", ">">>,
      <<"a", "<">>,
      <<"b", ">">>,
      <<"<", ">">>,
      <<"-", "-">>,
      <<">">>,
      <<>> }

\* the documents of at most MaxLines pool lines, each line ended by "\n"
RECURSIVE DocsOf(_)
DocsOf(n) ==
    IF n = 0 THEN {<<>>}
    ELSE LET shorter == DocsOf(n - 1)
         IN  shorter \cup {d \o l \o <<"\n">> : d \in shorter, l \in LinePool}

Docs == DocsOf(MaxLines)

CleanInit ==
    /\ cpc = "input"
    /\ doc \in Docs
    /\ kept = <<>>
    /\ out = <<>>
    /\ out2 = <<>>

\* the variables of main() before anything ran
MainFresh ==
    /\ title = NoValue
    /\ tmpdir = FALSE
    /\ tmpfiles = {}
    /\ transcript = NoText
    /\ subtitles = NoText
    /\ info = NoInfo
    /\ dl = "none"
    /\ argv = NotInvoked
    /\ result = NoResult
    /\ summary = <<>>
    /\ stderr = <<>>
    /\ stdout = <<>>
    /\ exit_code = <<>>
    /\ stages = <<>>

MainIdle ==
    /\ pc = "idle"
    /\ model = NoValue
    /\ MainFresh

\* clean_vtt(doc)
Clean ==
    /\ cpc = "input"
    /\ kept' = clean_lines(doc)
    /\ out' = clean_vtt(doc)
    /\ cpc' = "cleaned"
    /\ UNCHANGED <<doc, out2>>
    /\ UNCHANGED mainVars

\* clean_vtt applied to its own result
Reclean ==
    /\ cpc = "cleaned"
    /\ out2' = clean_vtt(out)
    /\ cpc' = "recleaned"
    /\ UNCHANGED <<doc, kept, out>>
    /\ UNCHANGED mainVars

InitClean == CleanInit /\ MainIdle

NextClean == Clean \/ Reclean

SpecClean == InitClean /\ [][NextClean]_vars

(***************************************************************************)
(* Properties of clean_vtt (checked under SpecClean)                       *)
(***************************************************************************)

Range(f) == {f[i] : i \in DOMAIN f}

\* s holds an inline tag: a "<", one or more characters other than ">",
\* then a ">"
HasTag(s) ==
    \E a \in 1..Len(s) : \E b \in (a + 2)..Len(s) :
        /\ s[a] = "<"
        /\ s[b] = ">"
        /\ \A c \in (a + 1)..(b - 1) : s[c] # ">"

\* the trimmed lines of a document, in order
TrimmedLines(d) ==
    LET L == splitlines(d) IN [k \in 1..Len(L) |-> strip(L[k])]

IsKeptCandidate(l) == ~SkipLine(l) /\ StripTags(l) # <<>>

\* the trimmed, non-discarded lines, tag-stripped, the empty ones left out
Candidates(d) ==
    LET live == SelectSeq(TrimmedLines(d), IsKeptCandidate)
    IN  [k \in 1..Len(live) |-> StripTags(live[k])]

\* c with every later repeat of an element removed
FirstOccurrences(c) ==
    LET I      == {i \in 1..Len(c) : \A j \in 1..(i - 1) : c[j] # c[i]}
        Kth(k) == CHOOSE i \in I : Cardinality({x \in I : x <= i}) = k
    IN  [k \in 1..Cardinality(I) |-> c[Kth(k)]]

RECURSIVE TotalLen(_, _)
TotalLen(parts, n) ==
    IF n = 0 THEN 0 ELSE TotalLen(parts, n - 1) + Len(parts[n])

\* text is the parts in order with exactly one space between neighbours
SpaceJoined(text, parts) ==
    LET n        == Len(parts)
        Start(k) == TotalLen(parts, k - 1) + k
    IN  /\ Len(text) = TotalLen(parts, n) + (IF n = 0 THEN 0 ELSE n - 1)
        /\ \A k \in 1..n :
              /\ SubSeq(text, Start(k), Start(k) + Len(parts[k]) - 1) = parts[k]
              /\ k < n => text[Start(k) + Len(parts[k])] = " "

\* C7: the kept lines are the trimmed, tag-stripped, non-empty, non-discarded
\* input lines with every later exact repeat removed, in order of first
\* appearance, pairwise different, and the result is those lines joined by
\* single spaces.
C7_KeptLinesAreFirstOccurrences ==
    cpc # "input" =>
        /\ kept = FirstOccurrences(Candidates(doc))
        /\ \A i, j \in 1..Len(kept) : i # j => kept[i] # kept[j]
        /\ SpaceJoined(out, kept)

\* a document with a repeat that is not adjacent to its first occurrence was
\* cleaned
C7_Witness ==
    /\ cpc = "cleaned"
    /\ LET c == Candidates(doc)
       IN  \E i, j \in 1..Len(c) : i + 1 < j /\ c[i] = c[j] /\ c[i + 1] # c[i]
    /\ Len(kept) >= 2

\* C4 as stated: the output of clean_vtt never contains "-->".
C4_Original ==
    cpc # "input" => ~contains(out, Arrow)

\* C4 amended: every line that contains "-->" when it is tested is dropped, and
\* joining never forms the marker: the output contains "-->" only inside a kept
\* line that was formed by stripping tags from a line without the marker; a
\* document without inline tags yields an output without "-->".
C4_ArrowOnlyFromTagStripping ==
    cpc # "input" =>
        /\ contains(out, Arrow) =>
              \E k \in 1..Len(kept) : contains(kept[k], Arrow)
        /\ \A k \in 1..Len(kept) :
              contains(kept[k], Arrow) =>
                  \A l \in Range(TrimmedLines(doc)) :
                      (IsKeptCandidate(l) /\ StripTags(l) = kept[k]) =>
                          (~contains(l, Arrow) /\ HasTag(l))
        /\ (\A l \in Range(TrimmedLines(doc)) : ~HasTag(l)) =>
              ~contains(out, Arrow)

\* a document with a timestamp line and a text line was cleaned: the text is
\* kept and the timestamp line is gone
C4_Witness ==
    /\ cpc = "cleaned"
    /\ \E l \in Range(TrimmedLines(doc)) : contains(l, Arrow)
    /\ kept # <<>>
    /\ ~contains(out, Arrow)

\* C5 as stated: no inline tag remains in any kept line or in the joined
\* transcript.
C5_Original ==
    cpc # "input" =>
        /\ \A k \in 1..Len(kept) : ~HasTag(kept[k])
        /\ ~HasTag(out)

\* C5 amended: no kept line holds an inline tag (a "<", one or more characters
\* other than ">", a ">"); the joined transcript can hold one only across the
\* space between two kept lines.
C5_NoTagInKeptLine ==
    cpc # "input" =>
        /\ \A k \in 1..Len(kept) : ~HasTag(kept[k])
        /\ HasTag(out) => Len(kept) >= 2

\* a tagged line was cleaned and kept without its tags
C5_Witness ==
    /\ cpc = "cleaned"
    /\ \E l \in Range(TrimmedLines(doc)) :
          /\ HasTag(l)
          /\ IsKeptCandidate(l)
          /\ StripTags(l) \in Range(kept)

DEFAULT_MODEL == "claude-haiku-4-5-20251001"

\* `if len(subtitles) < 50`
MinChars == 50

\* max_chars = 100_000
max_chars == 100000

\* ---- the lines the program prints; a line is the tuple of its literal
\* ---- text and the values formatted into it
FetchingLine          == <<"Fetching video info...">>
TitleLine(t)          == <<"Title: ", t>>
ExtractingLine        == <<"Extracting subtitles...">>
TruncatedLine         == <<"Transcript truncated to 100000 characters.">>
SummarizingLine(m)    == <<"Summarizing with Claude (", m, ")...">>
InfoErrorLine(e)      == <<"Error fetching video info: ", e>>
DownloadErrorLine(e)  == <<"Error downloading subtitles: ", e>>
NoSubtitlesLine       == <<"No English subtitles found for this video.">>
TooShortLine          ==
    <<"Subtitles too short or empty - video may not have usable captions.">>
ClaudeErrorLine(r)    == <<"Error calling Claude: ", r.stderr>>

\* ---- inputs of a run

Models == {DEFAULT_MODEL, "claude-sonnet"}

\* what ydl.extract_info can return: metadata with or without a title
Infos ==
    { [status |-> "ok", has_title |-> TRUE, title |-> "Some Video",
       error |-> NoValue],
      [status |-> "ok", has_title |-> FALSE, title |-> NoValue,
       error |-> NoValue] }

\* the messages of the DownloadError yt-dlp can raise
DownloadErrors == {"Video unavailable"}

\* a cue text line of n characters
CueText(n) == [i \in 1..n |-> IF i = n THEN "z" ELSE "a"]

\* a caption file: header, one timestamp line, then the cue text given
VttOf(text) ==
    WEBVTT \o <<"\n", "\n">> \o <<"1", " ", "-", "-", ">", " ", "2", "\n">>
           \o text \o <<"\n">>

\* the example document of the specification, with short timestamps
HelloWorld ==
    LET cue == <<"H", "e", "l", "l", "o", " ", "<", "c", ">", "w", "o", "r",
                 "l", "d", "<", "/", "c", ">">>
    IN  VttOf(cue) \o <<"\n">> \o <<"2", " ", "-", "-", ">", " ", "3", "\n">>
                   \o cue \o <<"\n">>

HeaderOnly ==
    WEBVTT \o <<"\n">> \o <<"K", "i", "n", "d", ":", " ", "c", "\n">>
           \o <<"L", "a", "n", "g", "u", "a", "g", "e", ":", " ", "e", "\n">>

\* the caption texts yt-dlp can deliver, by name: headers only, the example,
\* and one cue line of 49, 50, 100000 and 100001 characters
Contents ==
    {"header_only", "hello_world", "below_min", "at_min", "at_max",
     "above_max"}

\* Path.read_text of a file with the content named c
read_text(c) ==
    CASE c = "header_only" -> HeaderOnly
      [] c = "hello_world" -> HelloWorld
      [] c = "below_min"   -> VttOf(CueText(MinChars - 1))
      [] c = "at_min"      -> VttOf(CueText(MinChars))
      [] c = "at_max"      -> VttOf(CueText(max_chars))
      [] c = "above_max"   -> VttOf(CueText(max_chars + 1))
      [] OTHER             -> <<>>

\* clean_vtt(raw) for each caption text
Cleaned == [c \in Contents \cup {NoValue} |-> clean_vtt(read_text(c))]

\* the characters of the text held as slice v
chars(v) == SubSeq(Cleaned[v.content], v.from, v.to)

\* len(v)
len(v) == v.to - v.from + 1

VttFiles == {[name |-> "subs.en", ext |-> "vtt", content |-> c] : c \in Contents}

OtherFile == [name |-> "subs.en", ext |-> "srt", content |-> NoValue]

\* what ydl.download can leave in the temporary directory
Downloads ==
    {{}} \cup {{OtherFile}} \cup {{f} : f \in VttFiles}
         \cup {{f, OtherFile} : f \in VttFiles}
         \cup {{[name |-> "subs.en", ext |-> "vtt", content |-> "hello_world"],
                [name |-> "subs.en-orig", ext |-> "vtt",
                 content |-> "at_min"]}}

\* what subprocess.run can return
Results ==
    { [status |-> "done", returncode |-> 0,
       stdout |-> <<" ", "O", "K", "\n">>, stderr |-> ""],
      [status |-> "done", returncode |-> 0,
       stdout |-> <<>>, stderr |-> "warning"],
      [status |-> "done", returncode |-> 1,
       stdout |-> <<>>, stderr |-> "rate limited"],
      [status |-> "done", returncode |-> 1,
       stdout |-> <<"p", "a", "r", "t">>, stderr |-> ""] }

\* ---- pieces of main()

\* Path(tmpdir).glob("*.vtt")
vtt_files(files) == {f \in files : f.ext = "vtt"}

\* info.get("title", "Unknown Title")
title_of(i) == IF i.has_title THEN i.title ELSE "Unknown Title"

\* variant of too_short: the boundary itself counts as too short
too_short_inclusive(s) == len(s) <= MinChars

\* `len(subtitles) < 50`
too_short(s) == len(s) < MinChars

\* `len(subtitles) > max_chars`
too_long(s) == len(s) > max_chars

\* variant of truncate: the trailing characters are kept
truncate_tail(s) ==
    [s EXCEPT !.from = IF len(s) > max_chars THEN s.to - max_chars + 1
                       ELSE s.from]

\* subtitles[:max_chars]
truncate(s) ==
    [s EXCEPT !.to = IF len(s) > max_chars THEN s.from + max_chars - 1
                     ELSE s.to]

\* result.stdout.strip()
summary_of(r) == strip(r.stdout)

\* sys.exit(1)
Exit1 ==
    /\ exit_code' = <<1>>
    /\ pc' = "exited"

\* main() up to the call of ydl.extract_info
Start ==
    /\ pc = "start"
    /\ stderr' = Append(stderr, FetchingLine)
    /\ stages' = Append(stages, "metadata")
    /\ pc' = "get_video_info"
    /\ UNCHANGED <<model, title, tmpdir, tmpfiles, transcript, subtitles,
                   info, dl, argv, result, summary, stdout, exit_code>>
    /\ UNCHANGED cleanVars

\* extract_info returned i: print the title, enter extract_subtitles, create
\* the temporary directory, call ydl.download
GetVideoInfoOk(i) ==
    /\ pc = "get_video_info"
    /\ info' = i
    /\ title' = title_of(i)
    /\ stderr' = stderr \o <<TitleLine(title_of(i)), ExtractingLine>>
    /\ stages' = Append(stages, "retrieval")
    /\ tmpdir' = TRUE
    /\ tmpfiles' = {}
    /\ pc' = "download"
    /\ UNCHANGED <<model, transcript, subtitles, dl, argv, result, summary,
                   stdout, exit_code>>
    /\ UNCHANGED cleanVars

\* extract_info raised DownloadError(e)
GetVideoInfoFail(e) ==
    /\ pc = "get_video_info"
    /\ info' = [status |-> "error", has_title |-> FALSE, title |-> NoValue,
                error |-> e]
    /\ stderr' = Append(stderr, InfoErrorLine(e))
    /\ Exit1
    /\ UNCHANGED <<model, title, tmpdir, tmpfiles, transcript, subtitles,
                   dl, argv, result, summary, stdout, stages>>
    /\ UNCHANGED cleanVars

\* ydl.download returned, leaving `files` in the temporary directory
DownloadOk(files) ==
    /\ pc = "download"
    /\ dl' = "ok"
    /\ tmpfiles' = files
    /\ pc' = "glob"
    /\ UNCHANGED <<model, title, tmpdir, transcript, subtitles, info, argv,
                   result, summary, stderr, stdout, exit_code, stages>>
    /\ UNCHANGED cleanVars

\* ydl.download raised DownloadError(e): report, leave the with block (the
\* directory is removed), exit
DownloadFail(e) ==
    /\ pc = "download"
    /\ dl' = "error"
    /\ stderr' = Append(stderr, DownloadErrorLine(e))
    /\ tmpdir' = FALSE
    /\ tmpfiles' = {}
    /\ Exit1
    /\ UNCHANGED <<model, title, transcript, subtitles, info, argv, result,
                   summary, stdout, stages>>
    /\ UNCHANGED cleanVars

\* variant of NoSubtitles: the process ends without leaving the with block
NoSubtitles_Leak ==
    /\ pc = "glob"
    /\ vtt_files(tmpfiles) = {}
    /\ stderr' = Append(stderr, NoSubtitlesLine)
    /\ Exit1
    /\ UNCHANGED <<model, title, tmpdir, tmpfiles, transcript, subtitles,
                   info, dl, argv, result, summary, stdout, stages>>
    /\ UNCHANGED cleanVars

\* no *.vtt file in the directory: report, leave the with block, exit
NoSubtitles ==
    /\ pc = "glob"
    /\ vtt_files(tmpfiles) = {}
    /\ stderr' = Append(stderr, NoSubtitlesLine)
    /\ tmpdir' = FALSE
    /\ tmpfiles' = {}
    /\ Exit1
    /\ UNCHANGED <<model, title, transcript, subtitles, info, dl, argv,
                   result, summary, stdout, stages>>
    /\ UNCHANGED cleanVars

\* clean_vtt(f.read_text()), as a slice: all of the cleaned text of f
cleaned_text(f) ==
    [content |-> f.content, from |-> 1,
     to |-> Len(clean_vtt(read_text(f.content)))]

\* vtt_files[0] is f: read it, clean it, leave the with block and return
ReadAndClean(f) ==
    /\ pc = "glob"
    /\ f \in vtt_files(tmpfiles)
    /\ stages' = Append(stages, "cleaning")
    /\ transcript' = cleaned_text(f)
    /\ subtitles' = cleaned_text(f)
    /\ tmpdir' = FALSE
    /\ tmpfiles' = {}
    /\ pc' = "gate"
    /\ UNCHANGED <<model, title, info, dl, argv, result, summary, stderr,
                   stdout, exit_code>>
    /\ UNCHANGED cleanVars

\* variant of TooShort: the message is printed but the run goes on to the
\* summarizer
TooShort_NoExit ==
    /\ pc = "gate"
    /\ too_short(subtitles)
    /\ stderr' = stderr \o <<TooShortLine, SummarizingLine(model)>>
    /\ argv' = [invoked |-> TRUE, title |-> title, subtitles |-> subtitles,
                model |-> model]
    /\ stages' = Append(stages, "summarization")
    /\ pc' = "claude"
    /\ UNCHANGED <<model, title, tmpdir, tmpfiles, transcript, subtitles,
                   info, dl, result, summary, stdout, exit_code>>
    /\ UNCHANGED cleanVars

\* the minimum-content gate fails
TooShort ==
    /\ pc = "gate"
    /\ too_short(subtitles)
    /\ stderr' = Append(stderr, TooShortLine)
    /\ Exit1
    /\ UNCHANGED <<model, title, tmpdir, tmpfiles, transcript, subtitles,
                   info, dl, argv, result, summary, stdout, stages>>
    /\ UNCHANGED cleanVars

\* variant of Summarize: the truncation notice goes to standard output
Summarize_NoticeToStdout ==
    /\ pc = "gate"
    /\ ~too_short(subtitles)
    /\ LET cut  == IF too_long(subtitles) THEN truncate(subtitles)
                   ELSE subtitles
           note == IF too_long(subtitles) THEN <<TruncatedLine>> ELSE <<>>
       IN  /\ subtitles' = cut
           /\ stdout' = stdout \o note
           /\ stderr' = Append(stderr, SummarizingLine(model))
           /\ argv' = [invoked |-> TRUE, title |-> title, subtitles |-> cut,
                       model |-> model]
    /\ stages' = Append(stages, "summarization")
    /\ pc' = "claude"
    /\ UNCHANGED <<model, title, tmpdir, tmpfiles, transcript, info, dl,
                   result, summary, exit_code>>
    /\ UNCHANGED cleanVars

\* the gate passes: truncate if needed, announce, build the prompt and start
\* the summarizer process
Summarize ==
    /\ pc = "gate"
    /\ ~too_short(subtitles)
    /\ LET cut  == IF too_long(subtitles) THEN truncate(subtitles)
                   ELSE subtitles
           note == IF too_long(subtitles) THEN <<TruncatedLine>> ELSE <<>>
       IN  /\ subtitles' = cut
           /\ stderr' = stderr \o note \o <<SummarizingLine(model)>>
           /\ argv' = [invoked |-> TRUE, title |-> title, subtitles |-> cut,
                       model |-> model]
    /\ stages' = Append(stages, "summarization")
    /\ pc' = "claude"
    /\ UNCHANGED <<model, title, tmpdir, tmpfiles, transcript, info, dl,
                   result, summary, stdout, exit_code>>
    /\ UNCHANGED cleanVars

\* the process ended with status 0: print an empty line, then the summary
ClaudeOk(r) ==
    /\ pc = "claude"
    /\ r.returncode = 0
    /\ result' = r
    /\ summary' = summary_of(r)
    /\ stdout' = stdout \o << <<>>, summary_of(r) >>
    /\ exit_code' = <<0>>
    /\ pc' = "done"
    /\ UNCHANGED <<model, title, tmpdir, tmpfiles, transcript, subtitles,
                   info, dl, argv, stderr, stages>>
    /\ UNCHANGED cleanVars

\* variant of ClaudeFail: the captured output is printed before the error
ClaudeFail_PartialOutput(r) ==
    /\ pc = "claude"
    /\ r.returncode # 0
    /\ result' = r
    /\ stdout' = Append(stdout, summary_of(r))
    /\ stderr' = Append(stderr, ClaudeErrorLine(r))
    /\ Exit1
    /\ UNCHANGED <<model, title, tmpdir, tmpfiles, transcript, subtitles,
                   info, dl, argv, summary, stages>>
    /\ UNCHANGED cleanVars

\* the process ended with another status
ClaudeFail(r) ==
    /\ pc = "claude"
    /\ r.returncode # 0
    /\ result' = r
    /\ stderr' = Append(stderr, ClaudeErrorLine(r))
    /\ Exit1
    /\ UNCHANGED <<model, title, tmpdir, tmpfiles, transcript, subtitles,
                   info, dl, argv, summary, stdout, stages>>
    /\ UNCHANGED cleanVars

CleanIdle ==
    /\ cpc = "idle"
    /\ doc = <<>>
    /\ kept = <<>>
    /\ out = <<>>
    /\ out2 = <<>>

Init ==
    /\ CleanIdle
    /\ pc = "start"
    /\ model \in Models
    /\ MainFresh

Next ==
    \/ Start
    \/ \E i \in Infos : GetVideoInfoOk(i)
    \/ \E e \in DownloadErrors : GetVideoInfoFail(e)
    \/ \E files \in Downloads : DownloadOk(files)
    \/ \E e \in DownloadErrors : DownloadFail(e)
    \/ NoSubtitles
    \/ \E f \in tmpfiles : ReadAndClean(f)
    \/ TooShort
    \/ Summarize
    \/ \E r \in Results : ClaudeOk(r)
    \/ \E r \in Results : ClaudeFail(r)

Spec == Init /\ [][Next]_vars

(***************************************************************************)
(* Properties of a run of main() (checked under Spec)                      *)
(***************************************************************************)

StageOrder == <<"metadata", "retrieval", "cleaning", "summarization">>

IsPrefix(a, b) == Len(a) <= Len(b) /\ a = SubSeq(b, 1, Len(a))

ErrorPrefixes ==
    { "Error fetching video info: ", "Error downloading subtitles: ",
      NoSubtitlesLine[1], TooShortLine[1], "Error calling Claude: " }

IsErrorLine(l) == l[1] \in ErrorPrefixes

ErrorCount(lines) ==
    Cardinality({i \in 1..Len(lines) : IsErrorLine(lines[i])})

Failed == exit_code = <<1>> \/ ErrorCount(stderr) > 0

\* the five fatal conditions, once the program has met them
MetadataFailed   == info.status = "error"
DownloadFailed   == dl = "error"
NoCaptionFile    == dl = "ok" /\ pc # "glob" /\ "cleaning" \notin Range(stages)
GateEvaluated    == "cleaning" \in Range(stages) /\ pc # "gate"
ContentTooShort  == GateEvaluated /\ Len(chars(transcript)) < MinChars
GenerationFailed == result.status = "done" /\ result.returncode # 0

\* the progress lines of a run that got as far as starting the summarizer
ProgressLines ==
    <<FetchingLine, TitleLine(title), ExtractingLine>>
        \o (IF Len(chars(transcript)) > max_chars THEN <<TruncatedLine>>
            ELSE <<>>)
        \o <<SummarizingLine(model)>>

\* C1: the stages start in the order metadata, retrieval, cleaning,
\* summarization; the summarizer is invoked only after the metadata fetch and
\* the download succeeded, a caption file was found and cleaned and the
\* minimum-content gate passed; after a failure no later stage starts.
C1_StagesInOrderAndAbort ==
    /\ [](/\ IsPrefix(stages, StageOrder)
          /\ argv.invoked =>
                /\ stages = StageOrder
                /\ info.status = "ok"
                /\ dl = "ok"
                /\ Len(chars(transcript)) >= MinChars
                /\ (ErrorCount(stderr) > 0 => GenerationFailed))
    /\ [][Failed => (stages' = stages /\ argv' = argv /\ pc' = pc)]_vars

\* a run went through all four stages and ended with status 0
C1_Witness ==
    /\ pc = "done"
    /\ stages = StageOrder
    /\ exit_code = <<0>>

\* C2: each fatal condition is reported exactly once on standard error, leaves
\* standard output empty and ends the run with status 1; a failed generation
\* reports the process's stderr text.
C2_FatalReportedOnce ==
    (MetadataFailed \/ DownloadFailed \/ NoCaptionFile \/ ContentTooShort
        \/ GenerationFailed) =>
        /\ ErrorCount(stderr) = 1
        /\ IsErrorLine(stderr[Len(stderr)])
        /\ stdout = <<>>
        /\ exit_code = <<1>>
        /\ pc = "exited"
        /\ MetadataFailed => stderr[Len(stderr)][2] = info.error
        /\ NoCaptionFile => stderr[Len(stderr)] = NoSubtitlesLine
        /\ ContentTooShort => stderr[Len(stderr)] = TooShortLine
        /\ GenerationFailed =>
              /\ stderr[Len(stderr)][1] = "Error calling Claude: "
              /\ stderr[Len(stderr)][2] = result.stderr

\* the summarizer exited with status 1 and "rate limited" on its stderr
C2_Witness ==
    /\ GenerationFailed
    /\ result.stderr = "rate limited"
    /\ exit_code = <<1>>

\* C3 as stated: on success the progress lines are on standard error and
\* standard output holds the summary text and nothing else.
C3_Original ==
    pc = "done" =>
        /\ stderr = ProgressLines
        /\ stdout = <<summary>>

\* C3 amended: on success the progress lines are on standard error and
\* standard output holds one empty line followed by the summary text, and
\* nothing else.
C3_StdoutBlankLineThenSummary ==
    pc = "done" =>
        /\ stderr = ProgressLines
        /\ stdout = << <<>>, summary >>
        /\ summary = strip(result.stdout)

\* a successful run that truncated its transcript and printed a summary
C3_Witness ==
    /\ pc = "done"
    /\ Len(chars(transcript)) > max_chars
    /\ TruncatedLine \in Range(stderr)
    /\ summary # <<>>

\* C8: once the gate has been evaluated, the run has aborted with the
\* too-short message and without invoking the summarizer exactly when the
\* cleaned transcript has fewer than 50 characters; otherwise the summarizer
\* was invoked.
C8_GateAtFifty ==
    GateEvaluated =>
        /\ (Len(chars(transcript)) < MinChars) <=>
              (/\ TooShortLine \in Range(stderr)
               /\ exit_code = <<1>>
               /\ ~argv.invoked)
        /\ (Len(chars(transcript)) >= MinChars) <=> argv.invoked

\* a transcript of 49 characters aborted the run
C8_Witness ==
    /\ GateEvaluated
    /\ Len(chars(transcript)) = MinChars - 1
    /\ pc = "exited"
    /\ ~argv.invoked

\* C9: the text handed to the summarizer is the first 100,000 characters of
\* the cleaned transcript, with a notice, when the transcript is longer, and
\* the transcript unchanged, without a notice, otherwise; its length is between
\* 50 and 100,000.
C9_Truncation ==
    argv.invoked =>
        LET whole  == chars(transcript)
            handed == chars(argv.subtitles)
        IN  /\ Len(whole) > max_chars =>
                  /\ Len(handed) = max_chars
                  /\ \A i \in 1..max_chars : handed[i] = whole[i]
                  /\ TruncatedLine \in Range(stderr)
            /\ Len(whole) <= max_chars =>
                  /\ handed = whole
                  /\ TruncatedLine \notin Range(stderr)
            /\ Len(handed) >= MinChars
            /\ Len(handed) <= max_chars

\* a transcript of more than 100,000 characters was handed on truncated
C9_Witness ==
    /\ argv.invoked
    /\ Len(chars(transcript)) > max_chars
    /\ Len(chars(argv.subtitles)) = max_chars

\* C10: the temporary directory exists only inside extract_subtitles, is empty
\* when the download starts, and is gone (with its files) once that stage has
\* ended in any way: while the summarizer runs and at process exit it does not
\* exist.
C10_TmpdirScoped ==
    /\ tmpdir => pc \in {"download", "glob"}
    /\ pc = "download" => (tmpdir /\ tmpfiles = {})
    /\ pc = "glob" => tmpdir
    /\ ~tmpdir => tmpfiles = {}
    /\ argv.invoked => ~tmpdir
    /\ exit_code # <<>> => ~tmpdir

\* the run aborted because no caption file was found, and the directory is gone
C10_Witness ==
    /\ pc = "exited"
    /\ NoSubtitlesLine \in Range(stderr)
    /\ ~tmpdir

====
